---- MODULE Spec2Model ----
(***************************************************************************)
(* Explicit mass-spring system (mess_spring_explicit.py).                  *)
(*                                                                         *)
(* The f32 fields are modelled in fixed point:                             *)
(*   position  : 1 = 1e-7 world units          (One = 1.0)                 *)
(*   velocity  : 1 = 1e-4 world units / s      (position unit / dt)        *)
(*   force     : 1 = 0.1 N                     (velocity unit * mass / dt) *)
(*   tunables  : 1 = 1e-3 of the program value (ParamOne = 1.0)            *)
(* so that  v += dt * f / particle_mass  is  v += f  and  x += v * dt  is  *)
(* x += v.  NaN is the IEEE not-a-number that 0/0 produces; every          *)
(* arithmetic operator propagates it and every comparison with it is       *)
(* false, as in the compiled kernels.                                      *)
(***************************************************************************)
EXTENDS Integers, Sequences, FiniteSets, TLC

\* ---------------------------------------------------------------- bounds
\* Capacity of the particle fields (1024 in the program, scaled down).
max_num_particles == 3
\* Kernel calls explored by the kernel-level specifications.
MaxOps == 5
\* Input events and frames explored by the main-loop specification.
MaxEvents == 2
MaxFrames == 2

\* ------------------------------------------------------- program constants
dtInv == 1000
substeps == 10
particle_mass == 1
Gravity == 98
AttractGain == 100
ProximityRadius == 1500000
SpringRest == 1000000
TuneNum == 11
TuneDen == 10
spring_Y_init == 1000
drag_damping_init == 1
dashpot_damping_init == 100

\* ------------------------------------------------------------ fixed point
One == 10000000
ParamOne == 1000
LenScale == 1000
DirOne == 1000
NaN == -2147483647
\* 1.0 world unit / s in velocity units, and 1 N in force units.
VelOne == One \div dtInv
ForcePerNewton == VelOne \div (dtInv * particle_mass)

Idx == 0 .. (max_num_particles - 1)
Axes == 1 .. 2
Zero2 == <<0, 0>>

\* Division rounding toward zero (symmetric in the sign of a).
Quot(a, b) == IF a >= 0 THEN a \div b ELSE -((-a) \div b)

FAdd(a, b) == IF a = NaN \/ b = NaN THEN NaN ELSE a + b
FSub(a, b) == IF a = NaN \/ b = NaN THEN NaN ELSE a - b
FNeg(a) == IF a = NaN THEN NaN ELSE -a
\* a * b / c
FMulDiv(a, b, c) ==
    IF a = NaN \/ b = NaN \/ c = NaN THEN NaN
    ELSE IF c = 0 THEN NaN
    ELSE Quot(a * b, c)
FLt(a, b) == a # NaN /\ b # NaN /\ a < b
FGt(a, b) == a # NaN /\ b # NaN /\ a > b

VAdd(p, q) == <<FAdd(p[1], q[1]), FAdd(p[2], q[2])>>
VSub(p, q) == <<FSub(p[1], q[1]), FSub(p[2], q[2])>>

RECURSIVE SqrtSearch(_, _, _)
SqrtSearch(n, lo, hi) ==
    IF hi - lo <= 1 THEN lo
    ELSE LET mid == (lo + hi) \div 2
         IN  IF mid * mid <= n THEN SqrtSearch(n, mid, hi)
             ELSE SqrtSearch(n, lo, mid)
\* Largest r with r * r <= n.
ISqrt(n) == SqrtSearch(n, 0, 46340)

\* Vector.norm(), in units of LenScale position units.
Norm(p) ==
    IF p[1] = NaN \/ p[2] = NaN THEN NaN
    ELSE LET a == Quot(p[1], LenScale)
             b == Quot(p[2], LenScale)
         IN  ISqrt(a * a + b * b)

\* Vector.normalized(): p / p.norm(), components in units of 1/DirOne.
\* A zero vector gives 0/0 = NaN in both components.
Normalized(p) ==
    LET n == Norm(p)
    IN  IF n = NaN \/ n = 0 THEN <<NaN, NaN>>
        ELSE <<Quot(Quot(p[1], LenScale) * DirOne, n),
               Quot(Quot(p[2], LenScale) * DirOne, n)>>

\* ------------------------------------------------------------------ state
VARIABLES
    x, v, f, fixed, rest_length, num_particles,
    spring_Y, drag_damping, dashpot_damping, paused,
    pc, step,
    last, prev, arg, x0, ops, events, frame, fr

fields == <<x, v, f, fixed, rest_length, num_particles>>
params == <<spring_Y, drag_damping, dashpot_damping>>
prog == <<x, v, f, fixed, rest_length, num_particles,
          spring_Y, drag_damping, dashpot_damping, paused>>
vars == <<x, v, f, fixed, rest_length, num_particles,
          spring_Y, drag_damping, dashpot_damping, paused,
          pc, step, last, prev, arg, x0, ops, events, frame, fr>>

\* What a frame's bookkeeping records: the fields at the start of the frame,
\* whether a scene operation was requested, and the kernel launches so far.
Snapshot == [x |-> x, v |-> v, fixed |-> fixed, rest_length |-> rest_length,
             num_particles |-> num_particles, paused |-> paused]
NoArg == [pos |-> Zero2, fixed_ |-> 0]

ZeroTable == [i \in Idx |-> [j \in Idx |-> 0]]

Init ==
    /\ x = [i \in Idx |-> Zero2]
    /\ v = [i \in Idx |-> Zero2]
    /\ f = [i \in Idx |-> Zero2]
    /\ fixed = [i \in Idx |-> 0]
    /\ rest_length = ZeroTable
    /\ num_particles = 0
    /\ paused = 0
    /\ spring_Y = spring_Y_init * ParamOne
    /\ drag_damping = drag_damping_init * ParamOne
    /\ dashpot_damping = dashpot_damping_init * ParamOne
    /\ pc = "events"
    /\ step = 0
    /\ last = "init"
    /\ prev = "init"
    /\ arg = NoArg
    /\ x0 = [i \in Idx |-> Zero2]
    /\ ops = 0
    /\ events = 0
    /\ frame = 0
    /\ fr = [start |-> [x |-> [i \in Idx |-> Zero2], v |-> [i \in Idx |-> Zero2],
                        fixed |-> [i \in Idx |-> 0], rest_length |-> ZeroTable,
                        num_particles |-> 0, paused |-> 0],
             touched |-> FALSE, nsub |-> 0, natt |-> 0]

\* ---------------------------------------------------------------- substep
\* The spring and dashpot force of the spring (i, j) on particle i.
SpringForce(i, j) ==
    LET x_ij == VSub(x[i], x[j])
        d == Normalized(x_ij)
        strain == FSub(FMulDiv(Norm(x_ij), DirOne, Quot(rest_length[i][j], LenScale)),
                       DirOne)
        Y == Quot(spring_Y, ParamOne) * ForcePerNewton
        mag == FMulDiv(Y, strain, DirOne)
        dv == VSub(v[i], v[j])
        v_rel == FAdd(FMulDiv(dv[1], d[1], DirOne), FMulDiv(dv[2], d[2], DirOne))
        damp == FMulDiv(Quot(dashpot_damping, ParamOne) * ForcePerNewton, v_rel, VelOne)
    IN  <<FAdd(FNeg(FMulDiv(mag, d[1], DirOne)), FNeg(FMulDiv(damp, d[1], DirOne))),
          FAdd(FNeg(FMulDiv(mag, d[2], DirOne)), FNeg(FMulDiv(damp, d[2], DirOne)))>>

RECURSIVE SumSprings(_, _, _)
\* for j in range(n): if rest_length[i, j] != 0: f[i] += ...
SumSprings(i, j, n) ==
    IF j >= n THEN <<0, -Gravity * particle_mass>>
    ELSE LET rest == SumSprings(i, j + 1, n)
         IN  IF rest_length[i][j] # 0 THEN VAdd(rest, SpringForce(i, j)) ELSE rest

Force(i) == SumSprings(i, 0, num_particles)

\* v *= exp(-dt * drag_damping), to the resolution of the velocity unit.
Drag(vel) ==
    <<FSub(vel[1], FMulDiv(vel[1], drag_damping, ParamOne * dtInv)),
      FSub(vel[2], FMulDiv(vel[2], drag_damping, ParamOne * dtInv))>>

\* Integrate without the test of fixed[i]: every particle is integrated.
IntegrateIgnoringPin(i, fi) ==
    LET v1 == Drag(<<FAdd(v[i][1], FMulDiv(fi[1], 1, particle_mass)),
                     FAdd(v[i][2], FMulDiv(fi[2], 1, particle_mass))>>)
    IN  [x |-> VAdd(x[i], v1), v |-> v1]

\* Integrate whose else branch leaves the velocity of a pinned particle.
IntegrateKeepingPinnedVelocity(i, fi) ==
    IF fixed[i] = 0
    THEN LET v1 == Drag(<<FAdd(v[i][1], FMulDiv(fi[1], 1, particle_mass)),
                          FAdd(v[i][2], FMulDiv(fi[2], 1, particle_mass))>>)
         IN  [x |-> VAdd(x[i], v1), v |-> v1]
    ELSE [x |-> x[i], v |-> v[i]]

\* The symplectic Euler update of particle i under force fi, before the
\* walls are applied: [x, v].
Integrate(i, fi) ==
    IF fixed[i] = 0
    THEN LET v1 == Drag(<<FAdd(v[i][1], FMulDiv(fi[1], 1, particle_mass)),
                          FAdd(v[i][2], FMulDiv(fi[2], 1, particle_mass))>>)
         IN  [x |-> VAdd(x[i], v1), v |-> v1]
    ELSE [x |-> x[i], v |-> Zero2]

\* One axis of the wall collision: [x, v] of that axis.
CollideAxis(xd, vd) ==
    LET lo == IF FLt(xd, 0) THEN [x |-> 0, v |-> 0] ELSE [x |-> xd, v |-> vd]
    IN  IF FGt(lo.x, One) THEN [x |-> One, v |-> 0] ELSE lo

Collide(r) ==
    LET a == CollideAxis(r.x[1], r.v[1])
        b == CollideAxis(r.x[2], r.v[2])
    IN  [x |-> <<a.x, b.x>>, v |-> <<a.v, b.v>>]

\* Particle i after one substep, under the forces the first loop computed.
Stepped(i) == Collide(Integrate(i, Force(i)))

\* substep storing the current length of every spring as its rest length.
substep_plastic ==
    LET n == num_particles
    IN  /\ f' = [i \in Idx |-> IF i < n THEN Force(i) ELSE f[i]]
        /\ x' = [i \in Idx |-> IF i < n THEN Stepped(i).x ELSE x[i]]
        /\ v' = [i \in Idx |-> IF i < n THEN Stepped(i).v ELSE v[i]]
        /\ rest_length' = [a \in Idx |-> [b \in Idx |->
               IF a < n /\ b < n /\ rest_length[a][b] # 0
               THEN Norm(VSub(x[a], x[b])) * LenScale
               ELSE rest_length[a][b]]]
        /\ UNCHANGED <<fixed, num_particles,
                       spring_Y, drag_damping, dashpot_damping, paused>>

substep ==
    LET n == num_particles
    IN  /\ f' = [i \in Idx |-> IF i < n THEN Force(i) ELSE f[i]]
        /\ x' = [i \in Idx |-> IF i < n THEN Stepped(i).x ELSE x[i]]
        /\ v' = [i \in Idx |-> IF i < n THEN Stepped(i).v ELSE v[i]]
        /\ UNCHANGED <<fixed, rest_length, num_particles,
                       spring_Y, drag_damping, dashpot_damping, paused>>

\* ----------------------------------------------------------- add_particle
\* (x[new_particle_id] - x[i]).norm() < 0.15
Near(pos, i) == FLt(Norm(VSub(pos, x[i])), Quot(ProximityRadius, LenScale))

\* SpringEntry writing rest_length[new_particle_id, i] only.
SpringEntryOneWay(pos, id, a, b) ==
    IF a = id /\ b < id /\ Near(pos, b) THEN SpringRest ELSE rest_length[a][b]

\* SpringEntry whose loop runs over every slot instead of range(num_particles).
SpringEntryAllSlots(pos, id, a, b) ==
    IF (a = id /\ b # id /\ Near(pos, b)) \/ (b = id /\ a # id /\ Near(pos, a))
    THEN SpringRest
    ELSE rest_length[a][b]

\* SpringEntry that rebuilds the table from the new particle's springs alone.
SpringEntryRebuild(pos, id, a, b) ==
    IF (a = id /\ b < id /\ Near(pos, b)) \/ (b = id /\ a < id /\ Near(pos, a))
    THEN SpringRest
    ELSE 0

\* rest_length[a, b] after add_particle(pos, ...) has written slot id.
SpringEntry(pos, id, a, b) ==
    IF (a = id /\ b < id /\ Near(pos, b)) \/ (b = id /\ a < id /\ Near(pos, a))
    THEN SpringRest
    ELSE rest_length[a][b]

add_particle(pos, fixed_) ==
    LET new_particle_id == num_particles
    IN  /\ new_particle_id < max_num_particles
        /\ v' = [v EXCEPT ![new_particle_id] = Zero2]
        /\ x' = [x EXCEPT ![new_particle_id] = pos]
        /\ fixed' = [fixed EXCEPT ![new_particle_id] = fixed_]
        /\ rest_length' = [a \in Idx |-> [b \in Idx |->
                              SpringEntry(pos, new_particle_id, a, b)]]
        /\ num_particles' = new_particle_id + 1
        /\ UNCHANGED <<f, spring_Y, drag_damping, dashpot_damping, paused>>

\* ---------------------------------------------------------------- attract
\* -dt * substeps * (x[i] - p) * 100, one axis, as a velocity.
Impulse(xd, pd) ==
    FNeg(FMulDiv(FMulDiv(FSub(xd, pd), 1, dtInv), substeps * AttractGain, dtInv))

\* The attract loop over every slot of the field.
AttractRangeAllSlots == Idx

AttractRange == 0 .. (num_particles - 1)

attract(p) ==
    /\ v' = [i \in Idx |->
               IF i \in AttractRange
               THEN <<FAdd(v[i][1], Impulse(x[i][1], p[1])),
                      FAdd(v[i][2], Impulse(x[i][2], p[2]))>>
               ELSE v[i]]
    /\ UNCHANGED <<x, f, fixed, rest_length, num_particles,
                   spring_Y, drag_damping, dashpot_damping, paused>>

\* ------------------------------------------------------- main: key handlers
\* A clear that resets num_particles and leaves the table.
ClearedTableUntouched == rest_length

\* rest_length.fill(0)
ClearedTable == ZeroTable

clear ==
    /\ num_particles' = 0
    /\ rest_length' = ClearedTable
    /\ UNCHANGED <<x, v, f, fixed, spring_Y, drag_damping, dashpot_damping, paused>>

\* paused[None] = not paused[None]
toggle_paused ==
    /\ paused' = IF paused = 0 THEN 1 ELSE 0
    /\ UNCHANGED <<fields, params>>

\* p *= 1.1 (shift = FALSE) or p /= 1.1 (shift = TRUE)
Tuned(p, shift) == IF shift THEN Quot(p * TuneDen, TuneNum) ELSE Quot(p * TuneNum, TuneDen)

tune(key, shift) ==
    /\ key \in {"y", "d", "x"}
    /\ spring_Y' = IF key = "y" THEN Tuned(spring_Y, shift) ELSE spring_Y
    /\ drag_damping' = IF key = "d" THEN Tuned(drag_damping, shift) ELSE drag_damping
    /\ dashpot_damping' = IF key = "x" THEN Tuned(dashpot_damping, shift)
                          ELSE dashpot_damping
    /\ UNCHANGED <<fields, paused>>

\* ------------------------------------------------------------------ inputs
PosA == <<3000000, 3000000>>
PosB == <<3000000, 3900000>>
PosCorner == <<One, 0>>
PosOutside == <<10500000, -500000>>
\* Positions a caller of the kernel may pass, and positions of a click in
\* the window (e.pos lies in the unit square).
Positions == {PosA, PosB, PosCorner, PosOutside}
ClickPositions == {PosA, PosB}
CursorPositions == {<<5000000, 5000000>>}

\* ------------------------------------------- kernel-level specification
Call(name, a) ==
    /\ last' = name
    /\ prev' = last
    /\ arg' = a
    /\ ops' = ops + 1
    /\ UNCHANGED <<pc, step, events, frame, fr>>

InCapacity == num_particles <= max_num_particles

AddParticle ==
    \E pos \in Positions, fixed_ \in {0, 1} :
        /\ ops < MaxOps
        /\ add_particle(pos, fixed_)
        /\ x0' = [x0 EXCEPT ![num_particles] = pos]
        /\ Call("add_particle", [pos |-> pos, fixed_ |-> fixed_])

Substep ==
    /\ ops < MaxOps
    /\ InCapacity
    /\ substep
    /\ UNCHANGED x0
    /\ Call("substep", NoArg)

Attract ==
    \E p \in CursorPositions :
        /\ ops < MaxOps
        /\ InCapacity
        /\ attract(p)
        /\ UNCHANGED x0
        /\ Call("attract", [pos |-> p, fixed_ |-> 0])

Clear ==
    /\ ops < MaxOps
    /\ clear
    /\ UNCHANGED x0
    /\ Call("clear", NoArg)

Next == AddParticle \/ Substep \/ Attract \/ Clear

Spec == Init /\ [][Next]_vars

\* ------------------------------------------- add_particle beyond capacity
\* add_particle has no capacity check.  With num_particles = max_num_particles
\* its stores index the fields out of range, which the compiled kernel does
\* not check: the stores either land outside the fields ("outside") or the
\* index wraps to slot 0 ("wrap").  The scalar num_particles is incremented
\* in either case.
add_particle_overflow(pos, fixed_, landing) ==
    /\ num_particles = max_num_particles
    /\ landing \in {"outside", "wrap"}
    /\ num_particles' = num_particles + 1
    /\ IF landing = "outside"
       THEN UNCHANGED <<x, v, fixed, rest_length>>
       ELSE /\ v' = [v EXCEPT ![0] = Zero2]
            /\ x' = [x EXCEPT ![0] = pos]
            /\ fixed' = [fixed EXCEPT ![0] = fixed_]
            /\ rest_length' = [a \in Idx |-> [b \in Idx |->
                   IF (a = 0 /\ Near(pos, b) /\ b # 0) \/ (b = 0 /\ Near(pos, a) /\ a # 0)
                      \/ (a = 0 /\ b = 0)
                   THEN SpringRest
                   ELSE rest_length[a][b]]]
    /\ UNCHANGED <<f, spring_Y, drag_damping, dashpot_damping, paused>>

AddParticleOverflow ==
    \E pos \in Positions, fixed_ \in {0, 1}, landing \in {"outside", "wrap"} :
        /\ ops < MaxOps
        /\ add_particle_overflow(pos, fixed_, landing)
        /\ UNCHANGED x0
        /\ Call("add_particle", [pos |-> pos, fixed_ |-> fixed_])

NextOverflow == AddParticle \/ Substep \/ Attract \/ Clear \/ AddParticleOverflow

SpecOverflow == Init /\ [][NextOverflow]_vars

\* --------------------------------------------- main-loop specification
Event(name, a) ==
    /\ pc = "events"
    /\ events < MaxEvents
    /\ events' = events + 1
    /\ last' = name
    /\ prev' = last
    /\ arg' = a
    /\ UNCHANGED <<pc, step, ops, frame>>

Control(name, to) ==
    /\ pc' = to
    /\ last' = name
    /\ prev' = last
    /\ arg' = NoArg
    /\ UNCHANGED <<ops, events, x0>>

\* e.key == ti.GUI.LMB
EvLMB ==
    \E pos \in ClickPositions, shift \in {0, 1} :
        /\ add_particle(pos, shift)
        /\ x0' = [x0 EXCEPT ![num_particles] = pos]
        /\ fr' = [fr EXCEPT !.touched = TRUE]
        /\ Event("add_particle", [pos |-> pos, fixed_ |-> shift])

\* e.key in [ESCAPE, EXIT]
EvExit ==
    /\ pc = "events"
    /\ UNCHANGED <<prog, step, frame, fr>>
    /\ Control("exit", "exited")

\* e.key == SPACE
EvSpace ==
    /\ toggle_paused
    /\ UNCHANGED <<x0, fr>>
    /\ Event("toggle_paused", NoArg)

\* e.key == 'c'
EvClear ==
    /\ clear
    /\ fr' = [fr EXCEPT !.touched = TRUE]
    /\ UNCHANGED x0
    /\ Event("clear", NoArg)

\* e.key in 'y', 'd', 'x', with or without Shift
EvTune ==
    \E key \in {"y", "d", "x"}, shift \in BOOLEAN :
        /\ tune(key, shift)
        /\ UNCHANGED <<x0, fr>>
        /\ Event("tune", NoArg)

\* The event list is exhausted.
EventsDone ==
    /\ pc = "events"
    /\ step' = 0
    /\ UNCHANGED <<prog, frame, fr>>
    /\ Control("events_done", "loop")

\* The loop without the test of paused.
LoopEnabledIgnoringPause == step < substeps

\* if not paused[None]: for step in range(substeps)
LoopEnabled == paused = 0 /\ step < substeps

LoopSubstep ==
    /\ pc = "loop"
    /\ LoopEnabled
    /\ InCapacity
    /\ substep
    /\ step' = step + 1
    /\ fr' = [fr EXCEPT !.nsub = @ + 1]
    /\ UNCHANGED frame
    /\ Control("substep", "loop")

LoopExit ==
    /\ pc = "loop"
    /\ ~LoopEnabled
    /\ UNCHANGED <<prog, step, frame, fr>>
    /\ Control("loop_exit", "attract")

\* gui.is_pressed(ti.GUI.RMB)
RmbAttract ==
    \E p \in CursorPositions :
        /\ pc = "attract"
        /\ InCapacity
        /\ attract(p)
        /\ fr' = [fr EXCEPT !.natt = @ + 1, !.touched = TRUE]
        /\ UNCHANGED <<step, frame>>
        /\ Control("attract", "render")

RmbUp ==
    /\ pc = "attract"
    /\ UNCHANGED <<prog, step, frame, fr>>
    /\ Control("rmb_up", "render")

\* Drawing and gui.show(): the next iteration of while True.
Show ==
    /\ pc = "render"
    /\ frame + 1 < MaxFrames
    /\ frame' = frame + 1
    /\ fr' = [start |-> Snapshot, touched |-> FALSE, nsub |-> 0, natt |-> 0]
    /\ UNCHANGED <<prog, step>>
    /\ Control("show", "events")

NextFrame ==
    \/ EvLMB \/ EvExit \/ EvSpace \/ EvClear \/ EvTune \/ EventsDone
    \/ LoopSubstep \/ LoopExit \/ RmbAttract \/ RmbUp \/ Show

SpecFrame == Init /\ [][NextFrame]_vars

\* ================================================================= claims
KernelStep(name) == last' = name /\ ops' = ops + 1
Live == 0 .. (num_particles - 1)
InUnit(a) == a # NaN /\ 0 <= a /\ a <= One
InBox(p) == InUnit(p[1]) /\ InUnit(p[2])
Pinned(i) == fixed[i] # 0

\* C1: starting from an empty scene each of the first max_num_particles calls
\* of add_particle increments num_particles by exactly 1, and the call after
\* them leaves num_particles, every position and the whole spring table
\* unchanged.
C1_Capacity ==
    [][KernelStep("add_particle") =>
          IF num_particles < max_num_particles
          THEN num_particles' = num_particles + 1
          ELSE UNCHANGED <<num_particles, x, rest_length>>]_vars

\* C2: in every state reached by add_particle, clear, substep and attract
\* calls the spring table is symmetric.
C2_Symmetric ==
    \A i \in Idx : \A j \in Idx : rest_length[i][j] = rest_length[j][i]

C2_Witness ==
    /\ last = "substep"
    /\ num_particles = 3
    /\ \E i \in Idx : \E j \in Idx : i # j /\ rest_length[i][j] = SpringRest
    /\ \E i \in Idx : \E j \in Idx : i # j /\ rest_length[i][j] = 0

\* C3 as stated: a particle created pinned, at any position add_particle
\* accepts, is at its creation position after any number of substeps.
C3_PinnedNeverMoves ==
    \A i \in Live : Pinned(i) => x[i] = x0[i]

\* C3 as amended: a particle created pinned at a position inside the unit
\* square (walls included) is at its creation position after any number of
\* substeps.
C3_PinnedInBoxNeverMoves ==
    \A i \in Live : (Pinned(i) /\ InBox(x0[i])) => x[i] = x0[i]

C3_Witness ==
    /\ last = "substep"
    /\ prev = "substep"
    /\ \E i \in Live : \E j \in Live :
          /\ Pinned(i)
          /\ x0[i] = PosCorner
          /\ x[i] = PosCorner
          /\ rest_length[i][j] # 0
          /\ ~Pinned(j)

\* C4: immediately after every substep every pinned particle below
\* num_particles has velocity (0, 0), also when an attract call had given it a
\* velocity before.
C4_PinnedVelocityZero ==
    last = "substep" => \A i \in Live : Pinned(i) => v[i] = Zero2

C4_Witness ==
    /\ last = "substep"
    /\ prev = "attract"
    /\ \E i \in Live : Pinned(i) /\ x[i] = PosA /\ v[i] = Zero2

\* C5: after every substep both coordinates of every particle below
\* num_particles lie in [0, 1], and on each axis whose coordinate after the
\* integration was below 0 or above 1 the velocity is exactly 0.
C5_BoundaryClamp ==
    [][KernelStep("substep") =>
          \A i \in Live : \A d \in Axes :
              /\ InUnit(x'[i][d])
              /\ LET pre == Integrate(i, Force(i)).x[d]
                 IN  (FLt(pre, 0) \/ FGt(pre, One)) => v'[i][d] = 0]_vars

\* C6: a clear leaves num_particles = 0 and every entry of the spring table 0,
\* and a clear that directly follows a clear changes nothing.
C6_ClearIdempotent ==
    [][KernelStep("clear") =>
          /\ num_particles' = 0
          /\ \A a \in Idx : \A b \in Idx : rest_length'[a][b] = 0
          /\ (last = "clear" => UNCHANGED prog)]_vars

C6_Witness ==
    /\ last = "clear"
    /\ prev = "clear"
    /\ x[0] # Zero2
    /\ x[1] # Zero2

\* Strictly within the proximity radius, on squared distances.
Within(p, q) ==
    /\ p[1] # NaN /\ p[2] # NaN /\ q[1] # NaN /\ q[2] # NaN
    /\ LET a == Quot(p[1] - q[1], LenScale)
           b == Quot(p[2] - q[2], LenScale)
           r == Quot(ProximityRadius, LenScale)
       IN  a * a + b * b < r * r

\* C7: add_particle(pos, fixed_) with num_particles = n writes slot n
\* (position pos, velocity 0, the pinned flag), sets rest_length[n][i] and
\* rest_length[i][n] to the rest length for exactly the i < n strictly within
\* the proximity radius of pos, changes no other entry and no other particle,
\* and sets num_particles to n + 1; slots at or above n get no spring.
C7_AddParticle ==
    [][KernelStep("add_particle") =>
          LET n == num_particles
              pos == arg'.pos
          IN  /\ num_particles' = n + 1
              /\ x'[n] = pos
              /\ v'[n] = Zero2
              /\ fixed'[n] = arg'.fixed_
              /\ \A i \in Idx \ {n} :
                    x'[i] = x[i] /\ v'[i] = v[i] /\ fixed'[i] = fixed[i]
              /\ \A i \in Idx :
                    IF i < n /\ Within(pos, x[i])
                    THEN rest_length'[n][i] = SpringRest /\ rest_length'[i][n] = SpringRest
                    ELSE rest_length'[n][i] = 0 /\ rest_length'[i][n] = 0
              /\ \A a \in Idx \ {n} : \A b \in Idx \ {n} :
                    rest_length'[a][b] = rest_length[a][b]]_vars

C7_Witness ==
    /\ last = "add_particle"
    /\ num_particles = 3
    /\ rest_length[2][1] = SpringRest
    /\ rest_length[1][2] = SpringRest
    /\ rest_length[2][0] = 0
    /\ rest_length[0][1] = 0

C9_Frame ==
    pc \in {"attract", "render"} =>
        /\ fr.nsub = (IF paused = 0 THEN substeps ELSE 0)
        /\ (paused # 0 /\ ~fr.touched) =>
               /\ x = fr.start.x
               /\ v = fr.start.v
               /\ fixed = fr.start.fixed
               /\ num_particles = fr.start.num_particles
               /\ rest_length = fr.start.rest_length

C9_Witness ==
    /\ pc = "render"
    /\ paused # 0
    /\ fr.start.paused = 0
    /\ ~fr.touched
    /\ fr.nsub = 0
    /\ num_particles > 0
    /\ v[0] # Zero2

\* C10: attract changes only the velocities of the particles below
\* num_particles; it runs with the frame's substep loop over, at most once in
\* a frame, whether or not the simulation is paused.
C10_Attract ==
    [][last' = "attract" =>
          /\ UNCHANGED <<x, fixed, num_particles, rest_length,
                         spring_Y, drag_damping, dashpot_damping, paused>>
          /\ \A i \in Idx : i >= num_particles => v'[i] = v[i]
          /\ pc = "attract"
          /\ pc' = "render"
          /\ fr.nsub = (IF paused = 0 THEN substeps ELSE 0)
          /\ fr.natt = 0
          /\ fr'.natt = 1]_vars

C10_Witness ==
    /\ last = "attract"
    /\ paused # 0
    /\ num_particles > 0
    /\ fr.nsub = 0
    /\ v[0] # fr.start.v[0]

====
